---- MODULE Spec2Model ----
(***************************************************************************)
(* Model of backend/controllers/writing_controller.py: the essay scoring   *)
(* pipeline (score_essay), the credit ledger step                          *)
(* (check_and_deduct_credits), the analyzer boundary (analyze_essay) and   *)
(* the combined-score aggregation (calculate_combined_score).              *)
(*                                                                         *)
(* Every request runs in its own database session.  A query sees the       *)
(* rows committed so far; db.session.commit() publishes the session's      *)
(* pending writes in one step.  Between two database round trips of one    *)
(* request any other request may run.                                      *)
(*                                                                         *)
(* Spec serves calls concurrently; SpecSeq makes them one after the other, *)
(* over more request bodies and service answers; SpecPersist runs the      *)
(* scoring step alone over a wide range of essays and sub-scores.          *)
(*                                                                         *)
(* Scores are fixed-point numbers: one band point is Unit = 600 units, so  *)
(* that 0.5 points per 25 words (12 units a word) and 0.1 points per       *)
(* minute (1 unit a second) are whole numbers.  The arithmetic is exact;   *)
(* the last-bit error of the code's binary floating point is not modelled. *)
(***************************************************************************)
EXTENDS Integers, Sequences, FiniteSets, TLC

\* ---------------------------------------------------------------- bounds
NumUsers == 2
NumReqs == 2
MaxCredits == 2
MaxCalls == 3

Users == 1..NumUsers
Reqs == 1..NumReqs

\* ------------------------------------------------------------- constants
CREDITS_PER_ANALYSIS == 1

Unit == 60 * 10
Tenth == Unit \div 10

\* An optional value: <<>> is None / an absent key, <<v>> is the value v.
None == << >>
Some(v) == << v >>
IsNone(o) == o = << >>
Get(o) == o[1]

Max2(a, b) == IF a >= b THEN a ELSE b
Min2(a, b) == IF a <= b THEN a ELSE b

\* ------------------------------------------------------ pure computations
\* Python's round(x, 1) of a non-negative x = n / d: the nearest tenth, an
\* exact tie going to the even tenth.  The result is in units.
Round1(n, d) ==
    LET q == (n * 10) \div d
        r == (n * 10) % d
    IN  IF 2 * r < d THEN q * Tenth
        ELSE IF 2 * r > d THEN (q + 1) * Tenth
        ELSE IF q % 2 = 0 THEN q * Tenth ELSE (q + 1) * Tenth

RECURSIVE SumSeq(_)
SumSeq(s) == IF s = << >> THEN 0 ELSE Head(s) + SumSeq(Tail(s))

\* calculate_overall_score with the mean cut off after the first decimal.
calculate_overall_score_truncated(scores) ==
    (((SumSeq(scores) * 10) \div (Len(scores) * Unit)) * Tenth)

\* calculate_overall_score: round(sum(scores) / len(scores), 1).
calculate_overall_score(scores) == Round1(SumSeq(scores), Len(scores) * Unit)

\* calculate_word_count_penalty without the cap at 2.0 points.
calculate_word_count_penalty_uncapped(word_count, task_type) ==
    LET min_words == IF task_type = "task1" THEN 150 ELSE 250
    IN  IF word_count >= min_words THEN 0
        ELSE ((min_words - word_count) * Unit) \div 50

\* calculate_word_count_penalty: 0.5 points for every 25 words short, at
\* most 2.0 points; every task type other than 'task1' needs 250 words.
calculate_word_count_penalty(word_count, task_type) ==
    LET min_words == IF task_type = "task1" THEN 150 ELSE 250
    IN  IF word_count >= min_words THEN 0
        ELSE Min2(((min_words - word_count) * Unit) \div 50, 2 * Unit)

\* calculate_time_penalty without the cap at 1.0 point.
calculate_time_penalty_uncapped(time_spent, task_type) ==
    IF IsNone(time_spent) \/ Get(time_spent) = 0 THEN 0
    ELSE LET time_limit == IF task_type = "task1" THEN 20 ELSE 40
             time_limit_seconds == time_limit * 60
         IN  IF Get(time_spent) <= time_limit_seconds THEN 0
             ELSE ((Get(time_spent) - time_limit_seconds) * Unit) \div 600

\* calculate_time_penalty: 0.1 points for every minute over, at most 1.0
\* point; time_spent is optional and `not time_spent` also covers 0.
calculate_time_penalty(time_spent, task_type) ==
    IF IsNone(time_spent) \/ Get(time_spent) = 0 THEN 0
    ELSE LET time_limit == IF task_type = "task1" THEN 20 ELSE 40
             time_limit_seconds == time_limit * 60
         IN  IF Get(time_spent) <= time_limit_seconds THEN 0
             ELSE Min2(((Get(time_spent) - time_limit_seconds) * Unit) \div 600, Unit)

\* len(essay_text.strip().split()): the number of maximal runs of
\* non-blank characters.
WordCount(text) ==
    Cardinality({i \in 1..Len(text) :
                    text[i] # " " /\ (i = 1 \/ text[i - 1] = " ")})

\* ------------------------------------------------------------------ errors
NoError == [cls |-> "none", msg |-> << >>]
ValueError(m) == [cls |-> "ValueError", msg |-> m]
Exception(m) == [cls |-> "Exception", msg |-> m]

\* raise e if it is a ValueError, else Exception("Failed to score essay: ...")
\* (the except clause of score_essay, after db.session.rollback()).
score_essay_except(e) ==
    IF e.cls = "ValueError" THEN e
    ELSE Exception(<<"Failed to score essay">> \o e.msg)

\* ------------------------------------------------------------ the analyzer
required_keys == {"scores", "feedback", "corrections"}
score_keys == {"task_achievement", "coherence_cohesion",
               "lexical_resource", "grammatical_range"}

\* The four sub-scores of a parsed result, in the order score_essay lists them.
base_scores(analysis) ==
    << analysis.scores.task_achievement, analysis.scores.coherence_cohesion,
       analysis.scores.lexical_resource, analysis.scores.grammatical_range >>

Feedback == [k \in score_keys |-> "text"]
ScoreDict(a, b, c, d) ==
    [task_achievement |-> a, coherence_cohesion |-> b,
     lexical_resource |-> c, grammatical_range |-> d]

\* Sub-scores are 0..9 in 0.5 steps; Half(k) is k/2 points in units.
Half(k) == k * (Unit \div 2)
GoodScores == ScoreDict(Half(12), Half(14), Half(12), Half(13))
ScoreDicts == { GoodScores }

\* What the reasoning service can answer: text that parses as JSON (json =
\* TRUE, value = the parsed object) or text that does not.
Contents ==
    { [json |-> FALSE] }
    \cup { [json |-> TRUE, value |-> [feedback |-> Feedback, corrections |-> << >>]] }
    \cup { [json |-> TRUE,
            value |-> [scores |-> [task_achievement |-> Half(12)],
                       feedback |-> Feedback, corrections |-> << >>]] }
    \cup { [json |-> TRUE,
            value |-> [scores |-> s,
                       feedback |-> [k \in {"task_achievement"} |-> "text"],
                       corrections |-> << >>]] : s \in ScoreDicts }
    \cup { [json |-> TRUE,
            value |-> [scores |-> s, feedback |-> Feedback, corrections |-> << >>]]
           : s \in ScoreDicts }

\* The outcome of client.chat.completions.create: the call raises, or it
\* returns a message content.
Outcomes == { [ok |-> FALSE] } \cup { [ok |-> TRUE, content |-> c] : c \in Contents }

\* The inner try of analyze_essay: json.loads and the shape checks.  Every
\* ValueError raised by a shape check is itself caught by the inner
\* `except Exception` and raised again as ValueError("Invalid response
\* format: ...").
parse_and_validate(content) ==
    IF ~content.json
    THEN [err |-> ValueError(<<"Failed to parse GPT response as JSON">>), result |-> None]
    ELSE LET result == content.value
             Invalid(m) == [err |-> ValueError(<<"Invalid response format", m>>),
                            result |-> None]
         IN  IF ~(required_keys \subseteq DOMAIN result)
             THEN Invalid("Invalid response format: missing required keys")
             ELSE IF ~(score_keys \subseteq DOMAIN result.scores)
             THEN Invalid("Invalid response format: missing score keys")
             ELSE IF ~(score_keys \subseteq DOMAIN result.feedback)
             THEN Invalid("Invalid response format: missing feedback keys")
             ELSE [err |-> NoError, result |-> Some(result)]

\* The outer try of analyze_essay: whatever was raised inside, by the call or
\* by the validation, leaves as Exception("Failed to analyze essay: ...").
analyze_essay(outcome) ==
    LET inner == IF ~outcome.ok
                 THEN [err |-> Exception(<<"service call failed">>), result |-> None]
                 ELSE parse_and_validate(outcome.content)
    IN  IF inner.err = NoError THEN inner
        ELSE [err |-> Exception(<<"Failed to analyze essay">> \o inner.err.msg),
              result |-> None]

\* ---------------------------------------------------------------- requests
\* n words separated by single blanks.
Essay(n) == [i \in 1..(IF n = 0 THEN 0 ELSE 2 * n - 1) |-> IF i % 2 = 1 THEN "w" ELSE " "]

\* Request bodies: each key is optional.
Body(text, task, time) == [essay_text |-> text, task_type |-> task, time_spent |-> time]
Datas ==
    { Body(None, None, None),
      Body(Some(Essay(0)), Some("task3"), None),
      Body(Some(Essay(100)), Some("task1"), Some(1260)),
      Body(Some(Essay(250)), Some("task2"), None) }

\* The well-formed requests and the two main outcomes of the service call.
CoreDatas ==
    { d \in Datas : /\ ~IsNone(d.task_type) /\ Get(d.task_type) \in {"task1", "task2"}
                    /\ ~IsNone(d.essay_text) /\ Get(d.essay_text) # << >> }
CoreOutcomes ==
    { o \in Outcomes :
        ~o.ok \/ (o.content.json /\ "scores" \in DOMAIN o.content.value
                                 /\ o.content.value.scores = GoodScores
                                 /\ o.content.value.feedback = Feedback) }

VARIABLES credits, scores, combined, req, calls
vars == << credits, scores, combined, req, calls >>

Idle ==
    [pc |-> "idle", kind |-> "none", call |-> 0, user_id |-> 0,
     essay_len |-> None, task_type |-> None, time_spent |-> None,
     word_count |-> 0, seen |-> None,
     analysis |-> None, new_score |-> None, task1_score |-> None,
     task2_score |-> None, err |-> NoError, log |-> << >>, bal0 |-> None,
     essay_text |-> None, corrections |-> None, given |-> None]

\* The ledgers at the start: some users have no entry.  Users are
\* interchangeable, so the entries are those of users 1..k, the larger
\* balances first.
Ledgers ==
    { c \in UNION { [1..k -> 0..MaxCredits] : k \in 0..NumUsers } :
        \A u \in DOMAIN c : u + 1 \in DOMAIN c => c[u] >= c[u + 1] }

Init ==
    /\ credits \in Ledgers
    /\ scores = << >>
    /\ combined = << >>
    /\ req = [r \in Reqs |-> Idle]
    /\ calls = 0

Balance(u) == IF u \in DOMAIN credits THEN Some(credits[u]) ELSE None

\* The request leaves score_essay through its except clause.
Fail(rq, e) == [rq EXCEPT !.pc = "failed", !.err = score_essay_except(e)]
\* log is the history of the call: the steps it has completed, in order.
Logged(rq, ev) == [rq EXCEPT !.log = Append(@, ev)]
InLog(rq, ev) == \E i \in 1..Len(rq.log) : rq.log[i] = ev

CanStart(r) ==
    /\ req[r].pc = "idle"
    /\ calls < MaxCalls
    /\ \A q \in Reqs : q < r => req[q].pc # "idle"

\* score_essay, up to the first database round trip: the field check and the
\* word count.  The request keeps the length of the essay text, its word
\* count, the task type and the time spent.
BeginScore(r, u, d) ==
    /\ CanStart(r)
    /\ calls' = calls + 1
    /\ LET rq == [Idle EXCEPT !.kind = "score", !.call = calls + 1, !.user_id = u,
                              !.bal0 = Balance(u)]
       IN  req' = [req EXCEPT ![r] =
                IF IsNone(d.essay_text) \/ IsNone(d.task_type)
                THEN Fail(rq, ValueError(<<"Missing required fields">>))
                ELSE [rq EXCEPT !.pc = "check",
                                !.essay_len = Some(Len(Get(d.essay_text))),
                                !.task_type = d.task_type,
                                !.time_spent = d.time_spent,
                                !.word_count = WordCount(Get(d.essay_text))]]
    /\ UNCHANGED << credits, scores, combined >>

\* QueryCredits without the test of the balance.
QueryCredits_no_balance_test(r) ==
    /\ req[r].pc = "check"
    /\ LET u == req[r].user_id
       IN  req' = [req EXCEPT ![r] =
                IF u \notin DOMAIN credits
                THEN Fail(@, ValueError(<<"User credits not found">>))
                ELSE [@ EXCEPT !.pc = "deduct", !.seen = Some(credits[u])]]
    /\ UNCHANGED << credits, scores, combined, calls >>

\* QueryCredits that goes on to the analysis with the deduction left out.
QueryCredits_no_deduction(r) ==
    /\ req[r].pc = "check"
    /\ LET u == req[r].user_id
       IN  req' = [req EXCEPT ![r] =
                IF u \notin DOMAIN credits
                THEN Fail(@, ValueError(<<"User credits not found">>))
                ELSE IF credits[u] < CREDITS_PER_ANALYSIS
                THEN Fail(@, ValueError(<<"Insufficient credits">>))
                ELSE [@ EXCEPT !.pc = "analyze", !.seen = Some(credits[u])]]
    /\ UNCHANGED << credits, scores, combined, calls >>

\* check_and_deduct_credits: the query and the two checks.
QueryCredits(r) ==
    /\ req[r].pc = "check"
    /\ LET u == req[r].user_id
       IN  req' = [req EXCEPT ![r] =
                IF u \notin DOMAIN credits
                THEN Fail(@, ValueError(<<"User credits not found">>))
                ELSE IF credits[u] < CREDITS_PER_ANALYSIS
                THEN Fail(@, ValueError(<<"Insufficient credits">>))
                ELSE [@ EXCEPT !.pc = "deduct", !.seen = Some(credits[u])]]
    /\ UNCHANGED << credits, scores, combined, calls >>

\* DeductCredits as a decrement of the stored balance, whatever the query
\* had returned.
DeductCredits_of_stored(r) ==
    /\ req[r].pc = "deduct"
    /\ credits' = [credits EXCEPT ![req[r].user_id] = @ - CREDITS_PER_ANALYSIS]
    /\ req' = [req EXCEPT ![r] = Logged([@ EXCEPT !.pc = "analyze"], "deduct")]
    /\ UNCHANGED << scores, combined, calls >>

\* check_and_deduct_credits: available_credits -= CREDITS_PER_ANALYSIS on the
\* loaded object, then commit: the row is written with the value computed
\* from the balance the query returned.
DeductCredits(r) ==
    /\ req[r].pc = "deduct"
    /\ credits' = [credits EXCEPT ![req[r].user_id] =
                        Get(req[r].seen) - CREDITS_PER_ANALYSIS]
    /\ req' = [req EXCEPT ![r] = Logged([@ EXCEPT !.pc = "analyze"], "deduct")]
    /\ UNCHANGED << scores, combined, calls >>

\* A database round trip of score_essay raises (query or commit): nothing is
\* written, the except clause rolls back and raises.
DbError(r) ==
    /\ req[r].pc \in {"check", "deduct", "persist"}
    /\ req' = [req EXCEPT ![r] = Fail(@, Exception(<<"database error">>))]
    /\ UNCHANGED << credits, scores, combined, calls >>

\* CallAnalyzer with a refund of the credit when the analysis fails.
CallAnalyzer_refund(r, o) ==
    /\ req[r].pc = "analyze"
    /\ LET a == analyze_essay(o)
           rq == Logged(req[r], "analyze")
       IN  /\ req' = [req EXCEPT ![r] =
                IF a.err # NoError
                THEN Fail(Logged(rq, IF o.ok THEN "response rejected" ELSE "call raised"),
                          a.err)
                ELSE Logged([rq EXCEPT !.pc = "persist", !.analysis = a.result],
                            "analyzed")]
           /\ credits' = IF a.err # NoError
                         THEN [credits EXCEPT ![req[r].user_id] = @ + CREDITS_PER_ANALYSIS]
                         ELSE credits
    /\ UNCHANGED << scores, combined, calls >>

\* analyze_essay: the service call and the validation of its answer.
CallAnalyzer(r, o) ==
    /\ req[r].pc = "analyze"
    /\ LET a == analyze_essay(o)
           rq == Logged(req[r], "analyze")
       IN  req' = [req EXCEPT ![r] =
                IF a.err # NoError
                THEN Fail(Logged(rq, IF o.ok THEN "response rejected" ELSE "call raised"),
                          a.err)
                ELSE Logged([rq EXCEPT !.pc = "persist", !.analysis = a.result],
                            "analyzed")]
    /\ UNCHANGED << credits, scores, combined, calls >>

\* writing_score without the floor of the adjusted score at 0.
writing_score_no_floor(rq, id) ==
    LET task_type == Get(rq.task_type)
        time_spent == rq.time_spent
        overall_score == calculate_overall_score(base_scores(Get(rq.analysis)))
        word_count_penalty == calculate_word_count_penalty(rq.word_count, task_type)
        time_penalty == calculate_time_penalty(time_spent, task_type)
    IN  [id |-> id, user_id |-> rq.user_id, task_type |-> task_type,
         word_count |-> rq.word_count, time_spent |-> time_spent,
         base_scores |-> base_scores(Get(rq.analysis)),
         overall_score |-> overall_score,
         word_count_penalty |-> word_count_penalty,
         time_penalty |-> time_penalty,
         adjusted_score |-> overall_score - word_count_penalty - time_penalty,
         call |-> rq.call]

\* The WritingScore row score_essay builds from the request and the analysis.
writing_score(rq, id) ==
    LET task_type == Get(rq.task_type)
        time_spent == rq.time_spent
        overall_score == calculate_overall_score(base_scores(Get(rq.analysis)))
        word_count_penalty == calculate_word_count_penalty(rq.word_count, task_type)
        time_penalty == calculate_time_penalty(time_spent, task_type)
    IN  [id |-> id, user_id |-> rq.user_id, task_type |-> task_type,
         word_count |-> rq.word_count, time_spent |-> time_spent,
         base_scores |-> base_scores(Get(rq.analysis)),
         overall_score |-> overall_score,
         word_count_penalty |-> word_count_penalty,
         time_penalty |-> time_penalty,
         adjusted_score |-> Max2(0, overall_score - word_count_penalty - time_penalty),
         call |-> rq.call]

\* score_essay: scores, penalties, db.session.add(writing_score), commit.
\* Rows get increasing ids and creation times in commit order.
PersistScore(r) ==
    /\ req[r].pc = "persist"
    /\ LET id == Len(scores) + 1
       IN  /\ scores' = Append(scores, writing_score(req[r], id))
           /\ req' = [req EXCEPT ![r] =
                    Logged([@ EXCEPT !.pc = "task1", !.new_score = Some(id)], "persist")]
    /\ UNCHANGED << credits, combined, calls >>

\* WritingScore.query.filter_by(user_id, task_type)
\*     .order_by(created_at.desc()).first(): the newest such row, as its id.
MaxOf(S) == CHOOSE m \in S : \A x \in S : x <= m
\* Latest without the filter on the user.
Latest_of_any_user(u, task_type) ==
    LET ids == {i \in 1..Len(scores) : scores[i].task_type = task_type}
    IN  IF ids = {} THEN None ELSE Some(MaxOf(ids))
Latest(u, task_type) ==
    LET ids == {i \in 1..Len(scores) :
                    scores[i].user_id = u /\ scores[i].task_type = task_type}
    IN  IF ids = {} THEN None ELSE Some(MaxOf(ids))

\* combined_score with the two weights exchanged.
combined_score_weights_exchanged(task1, task2) ==
    Round1(2 * task1.adjusted_score + task2.adjusted_score, 3 * Unit)

\* round(task1.adjusted_score * 1/3 + task2.adjusted_score * 2/3, 1)
combined_score(task1, task2) ==
    Round1(task1.adjusted_score + 2 * task2.adjusted_score, 3 * Unit)

\* The call leaves calculate_combined_score; score_essay then returns the
\* record it created.
Finish(rq) == [rq EXCEPT !.pc = "done"]

\* A call of calculate_combined_score on its own.
BeginRecalc(r, u) ==
    /\ CanStart(r)
    /\ calls' = calls + 1
    /\ req' = [req EXCEPT ![r] =
            [Idle EXCEPT !.pc = "task1", !.kind = "recalc", !.call = calls + 1,
                         !.user_id = u, !.bal0 = Balance(u)]]
    /\ UNCHANGED << credits, scores, combined >>

\* QueryTask1 that does not see the row its own score_essay call has just
\* committed.
QueryTask1_before_own_row(r) ==
    /\ req[r].pc = "task1"
    /\ LET u == req[r].user_id
           ids == {i \in 1..Len(scores) :
                        /\ scores[i].user_id = u /\ scores[i].task_type = "task1"
                        /\ Some(i) # req[r].new_score}
       IN  req' = [req EXCEPT ![r] =
                [@ EXCEPT !.pc = "task2",
                          !.task1_score = IF ids = {} THEN None ELSE Some(MaxOf(ids))]]
    /\ UNCHANGED << credits, scores, combined, calls >>

\* calculate_combined_score: the query for the newest task1 row.
QueryTask1(r) ==
    /\ req[r].pc = "task1"
    /\ req' = [req EXCEPT ![r] =
            [@ EXCEPT !.pc = "task2", !.task1_score = Latest(req[r].user_id, "task1")]]
    /\ UNCHANGED << credits, scores, combined, calls >>

\* calculate_combined_score: the query for the newest task2 row, and the
\* test that both rows exist.
QueryTask2(r) ==
    /\ req[r].pc = "task2"
    /\ LET task2_score == Latest(req[r].user_id, "task2")
       IN  req' = [req EXCEPT ![r] =
                IF IsNone(@.task1_score) \/ IsNone(task2_score)
                THEN Finish([@ EXCEPT !.task2_score = task2_score])
                ELSE [@ EXCEPT !.pc = "existing", !.task2_score = task2_score]]
    /\ UNCHANGED << credits, scores, combined, calls >>

\* CombinedWritingScore.query.filter_by(user_id, task1_score_id,
\* task2_score_id).first()
Existing(u, t1, t2) ==
    {i \in 1..Len(combined) :
        /\ combined[i].user_id = u
        /\ combined[i].task1_score_id = t1
        /\ combined[i].task2_score_id = t2}

\* QueryExisting without the test for a row of this pair.
QueryExisting_always_insert(r) ==
    /\ req[r].pc = "existing"
    /\ req' = [req EXCEPT ![r] = [@ EXCEPT !.pc = "insert"]]
    /\ UNCHANGED << credits, scores, combined, calls >>

\* calculate_combined_score: the query for a row of this pair.
QueryExisting(r) ==
    /\ req[r].pc = "existing"
    /\ req' = [req EXCEPT ![r] =
            IF Existing(@.user_id, Get(@.task1_score), Get(@.task2_score)) # {}
            THEN Finish(@)
            ELSE [@ EXCEPT !.pc = "insert"]]
    /\ UNCHANGED << credits, scores, combined, calls >>

\* InsertCombined that overwrites the user's newest combined row, if there
\* is one, instead of adding a row.
InsertCombined_overwrite(r) ==
    /\ req[r].pc = "insert"
    /\ LET t1 == Get(req[r].task1_score)
           t2 == Get(req[r].task2_score)
           own == {i \in 1..Len(combined) : combined[i].user_id = req[r].user_id}
           id == IF own = {} THEN Len(combined) + 1 ELSE MaxOf(own)
           row == [id |-> id, user_id |-> req[r].user_id,
                   task1_score_id |-> t1, task2_score_id |-> t2,
                   combined_score |-> combined_score(scores[t1], scores[t2])]
       IN  combined' = IF own = {} THEN Append(combined, row)
                       ELSE [combined EXCEPT ![id] = row]
    /\ req' = [req EXCEPT ![r] = Finish(Logged(@, "combined"))]
    /\ UNCHANGED << credits, scores, calls >>

\* calculate_combined_score: db.session.add(combined_writing_score), commit.
InsertCombined(r) ==
    /\ req[r].pc = "insert"
    /\ LET t1 == Get(req[r].task1_score)
           t2 == Get(req[r].task2_score)
       IN  combined' = Append(combined,
                [id |-> Len(combined) + 1, user_id |-> req[r].user_id,
                 task1_score_id |-> t1, task2_score_id |-> t2,
                 combined_score |-> combined_score(scores[t1], scores[t2])])
    /\ req' = [req EXCEPT ![r] = Finish(Logged(@, "combined"))]
    /\ UNCHANGED << credits, scores, calls >>

\* AggregateError with the error raised to score_essay.
AggregateError_raised(r) ==
    /\ req[r].pc \in {"task1", "task2", "existing", "insert"}
    /\ req' = [req EXCEPT ![r] =
            Fail(Logged(@, "aggregate error"), Exception(<<"database error">>))]
    /\ UNCHANGED << credits, scores, combined, calls >>

\* A database round trip of calculate_combined_score raises: its except
\* clause prints the error and the function returns normally.
AggregateError(r) ==
    /\ req[r].pc \in {"task1", "task2", "existing", "insert"}
    /\ req' = [req EXCEPT ![r] = Finish(Logged(@, "aggregate error"))]
    /\ UNCHANGED << credits, scores, combined, calls >>

\* The caller takes the result or the error; the slot serves the next call.
Return(r) ==
    /\ req[r].pc \in {"done", "failed"}
    /\ req' = [req EXCEPT ![r] = Idle]
    /\ UNCHANGED << credits, scores, combined, calls >>

\* A step of a call in progress in slot r, the outcome of the service call
\* drawn from O.
Proceed(r, O) ==
    \/ QueryCredits(r)
    \/ DeductCredits(r)
    \/ DbError(r)
    \/ \E o \in O : CallAnalyzer(r, o)
    \/ PersistScore(r)
    \/ QueryTask1(r)
    \/ QueryTask2(r)
    \/ QueryExisting(r)
    \/ InsertCombined(r)
    \/ AggregateError(r)
    \/ Return(r)

\* Requests are served concurrently: a call may begin while others are in
\* progress, and any call in progress may take the next step.
Next ==
    \E r \in Reqs :
        \/ \E u \in Users, d \in CoreDatas : BeginScore(r, u, d)
        \/ \E u \in Users : BeginRecalc(r, u)
        \/ Proceed(r, CoreOutcomes)

Spec == Init /\ [][Next]_vars

\* Calls made one after the other: a call begins only when no other call is
\* in progress.
NoneActive == \A q \in Reqs : req[q].pc = "idle"
BeginScoreAlone(r, u, d) == NoneActive /\ BeginScore(r, u, d)
BeginRecalcAlone(r, u) == NoneActive /\ BeginRecalc(r, u)

NextSeq ==
    \E r \in Reqs :
        \/ \E u \in Users, d \in Datas : BeginScoreAlone(r, u, d)
        \/ \E u \in Users : BeginRecalcAlone(r, u)
        \/ Proceed(r, Outcomes)

SpecSeq == Init /\ [][NextSeq]_vars

\* The scoring step on its own, over a wide range of inputs: a call that
\* has paid its credit and holds the analysis of an essay of any of these
\* word counts, task types, times spent and sub-scores.
WordCounts == {0, 50, 100, 125, 149, 150, 200, 249, 250, 251}
TaskTypes == {"task1", "task2", "task3"}
Times == {None} \cup {Some(t) : t \in {0, 1200, 1201, 1260, 1800, 2400, 2460, 3000, 3600}}
SubScores == {Half(k) : k \in {0, 1, 13, 18}}

Analysed(n, task, time, sc) ==
    [Idle EXCEPT !.pc = "persist", !.kind = "score", !.call = 1, !.user_id = 1,
                 !.essay_len = Some(IF n = 0 THEN 0 ELSE 2 * n - 1),
                 !.task_type = Some(task), !.time_spent = time, !.word_count = n,
                 !.seen = Some(CREDITS_PER_ANALYSIS),
                 !.analysis = Some([scores |-> sc, feedback |-> Feedback,
                                    corrections |-> << >>]),
                 !.log = <<"deduct", "analyze", "analyzed">>,
                 !.bal0 = Some(CREDITS_PER_ANALYSIS)]

InitPersist ==
    /\ credits = [u \in {1} |-> 0]
    /\ scores = << >>
    /\ combined = << >>
    /\ calls = 1
    /\ \E n \in WordCounts, task \in TaskTypes, time \in Times,
          a \in SubScores, b \in SubScores, c \in SubScores, d \in SubScores :
            req = [r \in Reqs |-> IF r = 1 THEN Analysed(n, task, time, ScoreDict(a, b, c, d))
                                  ELSE Idle]

NextPersist == \E r \in Reqs : PersistScore(r)

SpecPersist == InitPersist /\ [][NextPersist]_vars

\* The scoring step for every combination of the four sub-scores 0, 0.5,
\* ..., 9, on a task2 essay of 250 words with no time given.
AllSubScores == {Half(k) : k \in 0..18}
InitMean ==
    /\ credits = [u \in {1} |-> 0]
    /\ scores = << >>
    /\ combined = << >>
    /\ calls = 1
    /\ \E a \in AllSubScores, b \in AllSubScores, c \in AllSubScores, d \in AllSubScores :
            req = [r \in Reqs |-> IF r = 1
                                  THEN Analysed(250, "task2", None, ScoreDict(a, b, c, d))
                                  ELSE Idle]

SpecMean == InitMean /\ [][NextPersist]_vars

\* ------------------------------------------------ find_text_positions
\* Texts are sequences of characters; offsets count from 0 as in Python.
\* essay_text.find(original_text, start): the lowest offset >= start at
\* which original_text occurs, -1 if there is none.
OccursAt(essay_text, original_text, pos) ==
    /\ pos + Len(original_text) <= Len(essay_text)
    /\ SubSeq(essay_text, pos + 1, pos + Len(original_text)) = original_text
find(essay_text, original_text, start) ==
    LET hits == {pos \in start..Len(essay_text) : OccursAt(essay_text, original_text, pos)}
    IN  IF hits = {} THEN -1 ELSE CHOOSE pos \in hits : \A h \in hits : pos <= h

\* positions_from with the search resumed behind the end of the match.
RECURSIVE positions_from_behind_match(_, _, _)
positions_from_behind_match(essay_text, original_text, start) ==
    LET pos == find(essay_text, original_text, start)
    IN  IF pos = -1 THEN << >>
        ELSE << [start |-> pos, end |-> pos + Len(original_text), text |-> original_text] >>
             \o positions_from_behind_match(essay_text, original_text,
                                            pos + Len(original_text))

\* The `while True` loop: the spans found from offset start on, the search
\* resumed one character behind the start of each match.
RECURSIVE positions_from(_, _, _)
positions_from(essay_text, original_text, start) ==
    LET pos == find(essay_text, original_text, start)
    IN  IF pos = -1 THEN << >>
        ELSE << [start |-> pos, end |-> pos + Len(original_text), text |-> original_text] >>
             \o positions_from(essay_text, original_text, pos + 1)

\* correction.copy() with correction['positions'] = positions.
WithPositions(correction, positions) ==
    [k \in DOMAIN correction \cup {"positions"} |->
        IF k = "positions" THEN positions ELSE correction[k]]

\* highlighted with the positions attached even when the list is empty.
highlighted_always_positions(essay_text, category, correction) ==
    LET original_text == IF "original" \in DOMAIN correction
                         THEN correction.original ELSE << >>
    IN  IF original_text # << >> /\ category # "structure"
        THEN WithPositions(correction, positions_from(essay_text, original_text, 0))
        ELSE correction

\* The body of the inner loop: what is appended to
\* highlighted_corrections[category] for one correction.
highlighted(essay_text, category, correction) ==
    LET original_text == IF "original" \in DOMAIN correction
                         THEN correction.original ELSE << >>
    IN  IF original_text # << >> /\ category # "structure"
        THEN LET positions == positions_from(essay_text, original_text, 0)
             IN  IF positions # << >> THEN WithPositions(correction, positions)
                 ELSE correction
        ELSE correction

categories == {"grammar", "vocabulary", "structure"}
find_text_positions(essay_text, corrections) ==
    [category \in categories |->
        IF category \in DOMAIN corrections
        THEN [i \in 1..Len(corrections[category]) |->
                    highlighted(essay_text, category, corrections[category][i])]
        ELSE << >>]

\* The resolver on its own: essays over a two-letter alphabet of at most
\* MaxText characters and the essay "the cat sat on the mat"; corrections
\* with up to two grammar entries, up to one vocabulary entry and up to one
\* structure entry, a category or an entry's original possibly absent.
MaxText == 4
Alphabet == {"a", "b"}
TheCat == << "t", "h", "e", " ", "c", "a", "t", " ", "s", "a", "t", " ",
             "o", "n", " ", "t", "h", "e", " ", "m", "a", "t" >>
The == << "t", "h", "e" >>
Texts == UNION { [1..n -> Alphabet] : n \in 0..MaxText } \cup { TheCat }
Originals == { None } \cup { Some(o) : o \in UNION { [1..n -> Alphabet] : n \in 0..2 } }
                \cup { Some(The) }
Correction(o) ==
    IF IsNone(o) THEN [suggestion |-> "text"]
    ELSE [original |-> Get(o), suggestion |-> "text"]
Lists(O, n) == UNION { [1..k -> { Correction(o) : o \in O }] : k \in 0..n }
CorrectionDicts ==
    { [category \in {c \in categories : ~IsNone(l[c])} |-> Get(l[category])] :
        l \in [grammar : { Some(g) : g \in Lists(Originals, 2) },
               vocabulary : { None } \cup { Some(v) : v \in Lists(Originals, 1) },
               structure : { None } \cup { Some(x) : x \in Lists({ None, Some(<< "a" >>) }, 1) }] }

Resolving(text, c) ==
    [Idle EXCEPT !.pc = "positions", !.kind = "score", !.call = 1, !.user_id = 1,
                 !.essay_text = Some(text), !.corrections = Some(c), !.given = Some(c),
                 !.analysis = Some([scores |-> GoodScores, feedback |-> Feedback,
                                    corrections |-> c])]

InitPositions ==
    /\ credits = [u \in {1} |-> 0]
    /\ scores = << >>
    /\ combined = << >>
    /\ calls = 1
    /\ \E text \in Texts, c \in CorrectionDicts :
            req = [r \in Reqs |-> IF r = 1 THEN Resolving(text, c) ELSE Idle]

\* analyze_essay: result['corrections'] = find_text_positions(essay_text,
\* result['corrections']).  The dictionary handed in is left as it was: an
\* entry gets its positions in a copy.
ResolvePositions(r) ==
    /\ req[r].pc = "positions"
    /\ LET result == Get(req[r].analysis)
       IN  req' = [req EXCEPT ![r] =
                [@ EXCEPT !.pc = "resolved",
                          !.analysis = Some([result EXCEPT !.corrections =
                                find_text_positions(Get(req[r].essay_text), @)])]]
    /\ UNCHANGED << credits, scores, combined, calls >>

NextPositions == \E r \in Reqs : ResolvePositions(r)

SpecPositions == InitPositions /\ [][NextPositions]_vars

\* ---------------------------------------------- the aggregation alone
\* One call of calculate_combined_score, for any user, on a store that
\* earlier score_essay calls have filled with up to MaxCalls WritingScore
\* rows and no combined row: rows of either task, of any user, with
\* adjusted scores 6.5, 5.3 and 6.378333... for task1 and 7.0, 6.4 and 6.28
\* for task2.
Uniform(k) == ScoreDict(Half(k), Half(k), Half(k), Half(k))
RowKinds ==
    { << 150, "task1", None, Uniform(13) >>,
      << 100, "task1", Some(1260), GoodScores >>,
      << 149, "task1", Some(1201), GoodScores >>,
      << 250, "task2", None, Uniform(14) >>,
      << 250, "task2", None, GoodScores >>,
      << 249, "task2", Some(2460), GoodScores >> }
StoredRow(kind, u, id) ==
    writing_score([Analysed(kind[1], kind[2], kind[3], kind[4])
                        EXCEPT !.user_id = u, !.call = 0], id)
Store(f) == [id \in DOMAIN f |-> StoredRow(f[id][1], f[id][2], id)]

Recalculating(u) ==
    [Idle EXCEPT !.pc = "task1", !.kind = "recalc", !.call = 1, !.user_id = u,
                 !.bal0 = Some(0)]

InitCombine ==
    /\ credits = [u \in Users |-> 0]
    /\ \E n \in 0..MaxCalls : \E f \in [1..n -> RowKinds \X Users] : scores = Store(f)
    /\ combined = << >>
    /\ calls = 1
    /\ \E u \in Users :
            req = [r \in Reqs |-> IF r = 1 THEN Recalculating(u) ELSE Idle]

NextCombine ==
    \E r \in Reqs :
        \/ QueryTask1(r)
        \/ QueryTask2(r)
        \/ QueryExisting(r)
        \/ InsertCombined(r)

SpecCombine == InitCombine /\ [][NextCombine]_vars

\* ------------------------------------------------------ later submissions
\* Calls made one after the other by users of whom the first has already
\* handed in a task1 and a task2 essay, with the combined row of the two in
\* the store.
InitResubmit ==
    /\ credits \in { c \in Ledgers : 1 \in DOMAIN c }
    /\ scores = << StoredRow(<< 100, "task1", Some(1260), GoodScores >>, 1, 1),
                   StoredRow(<< 250, "task2", None, GoodScores >>, 1, 2) >>
    /\ combined = << [id |-> 1, user_id |-> 1, task1_score_id |-> 1,
                      task2_score_id |-> 2,
                      combined_score |-> combined_score(scores[1], scores[2])] >>
    /\ req = [r \in Reqs |-> Idle]
    /\ calls = 0

SpecResubmit == InitResubmit /\ [][NextSeq]_vars

\* Concurrent calls in whose aggregation no database round trip raises, on
\* the empty store and on the store with the earlier rows of the first user.
NextAggregating ==
    \E r \in Reqs :
        \/ \E u \in Users, d \in CoreDatas : BeginScore(r, u, d)
        \/ \E u \in Users : BeginRecalc(r, u)
        \/ QueryCredits(r)
        \/ DeductCredits(r)
        \/ DbError(r)
        \/ \E o \in CoreOutcomes : CallAnalyzer(r, o)
        \/ PersistScore(r)
        \/ QueryTask1(r)
        \/ QueryTask2(r)
        \/ QueryExisting(r)
        \/ InsertCombined(r)
        \/ Return(r)

InitAggregating == Init \/ InitResubmit

SpecAggregating == InitAggregating /\ [][NextAggregating]_vars

\* ------------------------------------------------------------------ claims
RowsOfCall(c) == {i \in 1..Len(scores) : scores[i].call = c}
DatabaseError == score_essay_except(Exception(<<"database error">>))

\* C1: a score_essay call that fails after its credit deduction was
\* committed (the analyzer call raises, its response is rejected, or the
\* commit of the WritingScore fails) leaves the user's balance exactly
\* CREDITS_PER_ANALYSIS below the balance at the time of the call, and no
\* WritingScore row of that call in the store.
C1_FailureKeepsDeduction ==
    \A r \in Reqs :
        (req[r].pc = "failed" /\ InLog(req[r], "deduct")) =>
            /\ credits[req[r].user_id] = Get(req[r].bal0) - CREDITS_PER_ANALYSIS
            /\ RowsOfCall(req[r].call) = {}

C1_Witness ==
    \E r \in Reqs :
        /\ req[r].pc = "failed"
        /\ InLog(req[r], "deduct")
        /\ InLog(req[r], "response rejected")
        /\ Get(req[r].bal0) = MaxCredits

\* C2: concurrent score_essay calls of one user are serialized at the credit
\* check: no two of them have passed the check against the same balance
\* before either wrote it back, and every deduction that commits lowers the
\* stored balance by exactly CREDITS_PER_ANALYSIS.
C2_DeductionSerialized ==
    [][ /\ \A r, q \in Reqs :
            (/\ r # q
             /\ req'[r].pc = "deduct" /\ req'[q].pc = "deduct"
             /\ req'[r].user_id = req'[q].user_id) => req'[r].seen # req'[q].seen
        /\ \A r \in Reqs :
            (req[r].pc = "deduct" /\ req'[r].pc = "analyze") =>
                credits'[req[r].user_id] =
                    credits[req[r].user_id] - CREDITS_PER_ANALYSIS ]_vars

\* C3: the store holds at most one CombinedWritingScore row per (user, task1
\* row, task2 row).
C3_UniqueCombined ==
    \A i, j \in 1..Len(combined) :
        (/\ combined[i].user_id = combined[j].user_id
         /\ combined[i].task1_score_id = combined[j].task1_score_id
         /\ combined[i].task2_score_id = combined[j].task2_score_id) => i = j

\* C4: calculate_combined_score run again, one call after the other and with
\* no WritingScore created in between, adds nothing: whenever a call has
\* gone through without an error and found both task rows, the store holds
\* exactly one CombinedWritingScore row for that pair.
C4_RecalculateIdempotent ==
    \A r \in Reqs :
        (/\ req[r].pc = "done"
         /\ ~InLog(req[r], "aggregate error")
         /\ ~IsNone(req[r].task1_score) /\ ~IsNone(req[r].task2_score)) =>
            Cardinality(Existing(req[r].user_id, Get(req[r].task1_score),
                                 Get(req[r].task2_score))) = 1

\* A call on its own found the row an earlier call had inserted.
C4_Witness ==
    \E r \in Reqs :
        /\ req[r].pc = "done" /\ req[r].kind = "recalc"
        /\ ~InLog(req[r], "aggregate error") /\ ~InLog(req[r], "combined")
        /\ ~IsNone(req[r].task1_score) /\ ~IsNone(req[r].task2_score)
        /\ Existing(req[r].user_id, Get(req[r].task1_score),
                    Get(req[r].task2_score)) # {}

\* C5: a score_essay call whose essay text is empty (or missing) or whose
\* task type is not task1 or task2 fails with the invalid-input error
\* ValueError("Missing required fields"), before any credit is deducted,
\* before the analyzer is called and without a WritingScore row.
C5_InvalidInputRejected ==
    \A r \in Reqs :
        (/\ req[r].kind = "score"
         /\ \/ req[r].essay_len \in {None, Some(0)}
            \/ req[r].task_type \notin {Some("task1"), Some("task2")}) =>
            /\ req[r].pc # "done"
            /\ req[r].pc = "failed" => req[r].err = ValueError(<<"Missing required fields">>)
            /\ req[r].log = << >>
            /\ RowsOfCall(req[r].call) = {}

\* C6: when the analyzer fails, score_essay fails with the analyzer's own
\* error: a validation error (the ValueError of the shape checks) when the
\* response was rejected, an analysis error (an Exception carrying "Failed
\* to analyze essay: ..." and the cause) when the service call raised; the
\* caller can tell the two apart by their kind.
Ends(msg, tail) ==
    /\ Len(msg) >= Len(tail)
    /\ SubSeq(msg, Len(msg) - Len(tail) + 1, Len(msg)) = tail
C6_AnalyzerErrorUnchanged ==
    \A r \in Reqs :
        /\ InLog(req[r], "response rejected") =>
                /\ req[r].pc = "failed"
                /\ req[r].err.cls = "ValueError"
        /\ InLog(req[r], "call raised") =>
                /\ req[r].pc = "failed"
                /\ req[r].err.cls = "Exception"
                /\ Ends(req[r].err.msg, <<"Failed to analyze essay", "service call failed">>)

\* C7: an error inside calculate_combined_score never fails score_essay: the
\* call returns the record it created, the WritingScore row it committed is
\* in the store, and its credit was deducted exactly once.
C7_AggregationErrorSwallowed ==
    \A r \in Reqs :
        (req[r].kind = "score" /\ InLog(req[r], "aggregate error")) =>
            /\ req[r].pc = "done"
            /\ req[r].err = NoError
            /\ ~IsNone(req[r].new_score)
            /\ RowsOfCall(req[r].call) = {Get(req[r].new_score)}
            /\ Cardinality({i \in 1..Len(req[r].log) : req[r].log[i] = "deduct"}) = 1

C7_Witness ==
    \E r \in Reqs :
        /\ req[r].kind = "score" /\ InLog(req[r], "aggregate error")
        /\ ~IsNone(req[r].task1_score) /\ ~IsNone(req[r].task2_score)

\* C8: score_essay fails with ValueError("User credits not found") when the
\* user has no ledger entry and with ValueError("Insufficient credits") when
\* the balance is below CREDITS_PER_ANALYSIS (unless the query itself
\* raised); either way the balance is as it was, the analyzer has not been
\* called and the call has no WritingScore row.
NotFound == ValueError(<<"User credits not found">>)
Insufficient == ValueError(<<"Insufficient credits">>)
C8_CreditErrors ==
    \A r \in Reqs :
        LET rq == req[r]
            checked == rq.kind = "score" /\ ~IsNone(rq.essay_len) /\ rq.pc # "check"
            short == ~IsNone(rq.bal0) /\ Get(rq.bal0) < CREDITS_PER_ANALYSIS
        IN  /\ (checked /\ IsNone(rq.bal0)) =>
                    rq.pc = "failed" /\ rq.err \in {NotFound, DatabaseError}
            /\ (checked /\ short) =>
                    rq.pc = "failed" /\ rq.err \in {Insufficient, DatabaseError}
            /\ (rq.err = NotFound) => IsNone(rq.bal0)
            /\ (rq.err = Insufficient) => short
            /\ (rq.err \in {NotFound, Insufficient}) =>
                    /\ Balance(rq.user_id) = rq.bal0
                    /\ rq.log = << >>
                    /\ RowsOfCall(rq.call) = {}

\* A call refused for a balance that earlier calls of the user had used up.
C8_Witness ==
    \E r \in Reqs :
        /\ req[r].err = Insufficient
        /\ \E i \in 1..Len(scores) : scores[i].user_id = req[r].user_id

\* C9: in every score_essay call the credit deduction is committed before
\* the analyzer is invoked, the analyzer is invoked only for a call whose
\* credit check passed, and the WritingScore row is committed only after the
\* analyzer has returned.
Position(rq, ev) == CHOOSE i \in 1..Len(rq.log) : rq.log[i] = ev
C9_DeductAnalyzePersist ==
    \A r \in Reqs :
        LET rq == req[r]
        IN  /\ InLog(rq, "analyze") =>
                /\ InLog(rq, "deduct")
                /\ Position(rq, "deduct") < Position(rq, "analyze")
                /\ ~IsNone(rq.seen) /\ Get(rq.seen) >= CREDITS_PER_ANALYSIS
            /\ (rq.kind = "score" /\ RowsOfCall(rq.call) # {}) =>
                /\ InLog(rq, "analyzed") /\ InLog(rq, "persist")
                /\ Position(rq, "analyze") < Position(rq, "analyzed")
                /\ Position(rq, "analyzed") < Position(rq, "persist")

C9_Witness ==
    \E r \in Reqs : req[r].kind = "score" /\ RowsOfCall(req[r].call) # {}

\* C10: every WritingScore row has adjusted_score = max(0, overall_score -
\* word_count_penalty - time_penalty), which is never below 0 and never
\* above overall_score.
C10_AdjustedScore ==
    \A i \in 1..Len(scores) :
        LET w == scores[i]
        IN  /\ w.adjusted_score =
                    Max2(0, w.overall_score - w.word_count_penalty - w.time_penalty)
            /\ w.adjusted_score >= 0
            /\ w.adjusted_score <= w.overall_score

\* A row with both penalties charged, which together exceed its overall
\* score.
C10_Witness ==
    \E i \in 1..Len(scores) :
        /\ scores[i].word_count_penalty > 0 /\ scores[i].time_penalty > 0
        /\ scores[i].overall_score > 0
        /\ scores[i].overall_score <
                scores[i].word_count_penalty + scores[i].time_penalty

\* C11: the word count penalty of a task1 or task2 row, with minimum 150
\* words for task1 and 250 for task2, is 0 when the word count reaches the
\* minimum and min((minimum - word count) / 25 * 0.5, 2.0) otherwise; it
\* lies in [0, 2.0] and no smaller word count gets a smaller penalty (task1:
\* 100 words give 1.0, 0 words give 2.0).
C11_WordCountPenalty ==
    \A i \in 1..Len(scores) :
        LET w == scores[i]
            minimum == IF w.task_type = "task1" THEN 150 ELSE 250
        IN  w.task_type \in {"task1", "task2"} =>
                /\ w.word_count >= minimum => w.word_count_penalty = 0
                /\ w.word_count < minimum =>
                        w.word_count_penalty =
                            Min2((minimum - w.word_count) * (Unit \div 50), 2 * Unit)
                /\ w.word_count_penalty >= 0 /\ w.word_count_penalty <= 2 * Unit
                /\ \A fewer \in 0..w.word_count :
                        calculate_word_count_penalty(fewer, w.task_type)
                            >= w.word_count_penalty
                /\ (w.task_type = "task1" /\ w.word_count = 100) =>
                        w.word_count_penalty = Unit
                /\ (w.task_type = "task1" /\ w.word_count = 0) =>
                        w.word_count_penalty = 2 * Unit

\* A task1 essay of 100 words, charged one point, and so less than the cap.
C11_Witness ==
    \E i \in 1..Len(scores) :
        /\ scores[i].task_type = "task1" /\ scores[i].word_count = 100
        /\ scores[i].word_count_penalty = Unit

\* C12: the time penalty of a task1 or task2 row, with limit 1200 s for
\* task1 and 2400 s for task2, is 0 when the time spent is absent or at most
\* the limit and min((time spent - limit) / 60 * 0.1, 1.0) otherwise; it
\* lies in [0, 1.0] (task2 with 3000 s gives exactly 1.0).
C12_TimePenalty ==
    \A i \in 1..Len(scores) :
        LET w == scores[i]
            limit == IF w.task_type = "task1" THEN 1200 ELSE 2400
        IN  w.task_type \in {"task1", "task2"} =>
                /\ IsNone(w.time_spent) => w.time_penalty = 0
                /\ (~IsNone(w.time_spent) /\ Get(w.time_spent) <= limit) =>
                        w.time_penalty = 0
                /\ (~IsNone(w.time_spent) /\ Get(w.time_spent) > limit) =>
                        w.time_penalty =
                            Min2(((Get(w.time_spent) - limit) * Tenth) \div 60, Unit)
                /\ w.time_penalty >= 0 /\ w.time_penalty <= Unit
                /\ (w.task_type = "task2" /\ w.time_spent = Some(3000)) =>
                        w.time_penalty = Unit

\* A task2 essay handed in after 3000 s, ten minutes late, charged the
\* full point.
C12_Witness ==
    \E i \in 1..Len(scores) :
        /\ scores[i].task_type = "task2" /\ scores[i].time_spent = Some(3000)
        /\ scores[i].time_penalty = Unit

\* C13: for every grammar or vocabulary entry whose original is not empty
\* and occurs in the essay, the positions list of the resolved entry has
\* exactly one span for every offset at which original occurs verbatim
\* (overlapping occurrences included) and none for any other offset, the
\* starts strictly increasing, each span with end = start + length of
\* original and text = original.
Verbatim(text, sub, o) ==
    /\ o + Len(sub) <= Len(text)
    /\ \A j \in 1..Len(sub) : text[o + j] = sub[j]
Occurring(text, e) ==
    /\ "original" \in DOMAIN e
    /\ e.original # << >>
    /\ \E o \in 0..Len(text) : Verbatim(text, e.original, o)
C13_PositionsExact ==
    \A r \in Reqs :
        req[r].pc = "resolved" =>
            LET text == Get(req[r].essay_text)
                input == Get(req[r].given)
                output == Get(req[r].analysis).corrections
            IN  \A category \in {"grammar", "vocabulary"} \cap DOMAIN input :
                \A i \in 1..Len(input[category]) :
                    Occurring(text, input[category][i]) =>
                        /\ "positions" \in DOMAIN output[category][i]
                        /\ LET original == input[category][i].original
                               positions == output[category][i].positions
                           IN  /\ \A o \in 0..Len(text) :
                                    Cardinality({k \in 1..Len(positions) :
                                                    positions[k].start = o})
                                        = IF Verbatim(text, original, o) THEN 1 ELSE 0
                               /\ (text = TheCat /\ original = The) =>
                                    positions = << [start |-> 0, end |-> 3, text |-> The],
                                                   [start |-> 15, end |-> 18, text |-> The] >>
                               /\ \A k \in 1..Len(positions) :
                                    /\ positions[k].start \in 0..Len(text)
                                    /\ positions[k].end = positions[k].start + Len(original)
                                    /\ positions[k].text = original
                                    /\ k > 1 => positions[k - 1].start < positions[k].start

\* Three overlapping occurrences of a two-letter original in a vocabulary
\* entry, each starting one character behind the one before, all reported.
C13_Witness ==
    \E r \in Reqs :
        /\ req[r].pc = "resolved"
        /\ LET output == Get(req[r].analysis).corrections
           IN  /\ Len(output.vocabulary) = 1
               /\ "positions" \in DOMAIN output.vocabulary[1]
               /\ Len(output.vocabulary[1].original) = 2
               /\ Len(output.vocabulary[1].positions) = 3
               /\ output.vocabulary[1].positions[2].start
                        = output.vocabulary[1].positions[1].start + 1
               /\ output.vocabulary[1].positions[3].start
                        = output.vocabulary[1].positions[2].start + 1

\* C14: the resolver hands back unchanged, without a positions field, every
\* structure entry and every grammar or vocabulary entry whose original is
\* absent, empty or does not occur in the essay; every output category has
\* as many entries as the input category (none for a category the input
\* lacks), in the same order, and the dictionary handed in is as it was.
C14_PassThrough ==
    \A r \in Reqs :
        req[r].pc = "resolved" =>
            LET text == Get(req[r].essay_text)
                input == Get(req[r].given)
                output == Get(req[r].analysis).corrections
            IN  /\ req[r].corrections = req[r].given
                /\ DOMAIN output = {"grammar", "vocabulary", "structure"}
                /\ \A category \in DOMAIN output :
                    LET entries == IF category \in DOMAIN input
                                   THEN input[category] ELSE << >>
                    IN  /\ Len(output[category]) = Len(entries)
                        /\ \A i \in 1..Len(entries) :
                            /\ \A k \in DOMAIN entries[i] :
                                    /\ k \in DOMAIN output[category][i]
                                    /\ output[category][i][k] = entries[i][k]
                            /\ (category = "structure" \/ ~Occurring(text, entries[i])) =>
                                    /\ output[category][i] = entries[i]
                                    /\ "positions" \notin DOMAIN output[category][i]

\* A structure entry whose original occurs in the essay, behind a grammar
\* entry that is not found and one that is.
C14_Witness ==
    \E r \in Reqs :
        /\ req[r].pc = "resolved"
        /\ LET text == Get(req[r].essay_text)
               input == Get(req[r].given)
               output == Get(req[r].analysis).corrections
           IN  /\ "structure" \in DOMAIN input
               /\ Len(input.structure) = 1
               /\ Occurring(text, input.structure[1])
               /\ Len(input.grammar) = 2
               /\ "original" \in DOMAIN input.grammar[1]
               /\ input.grammar[1].original # << >>
               /\ ~Occurring(text, input.grammar[1])
               /\ Occurring(text, input.grammar[2])
               /\ "positions" \in DOMAIN output.grammar[2]

\* C15: calculate_combined_score, called on its own, creates no
\* CombinedWritingScore row for a user who lacks a WritingScore row of
\* either task; a row it creates belongs to the user of the call, references
\* the newest task1 row and the newest task2 row of that user, and stores
\* task1.adjusted_score * 1/3 + task2.adjusted_score * 2/3 rounded to one
\* decimal (6.5 and 7.0 give 6.8); the call changes nothing else.
C15_RecalculateCombines ==
    [][ /\ scores' = scores /\ credits' = credits
        /\ \A r \in Reqs :
            (/\ req[r].kind = "recalc"
             /\ \/ IsNone(Latest(req[r].user_id, "task1"))
                \/ IsNone(Latest(req[r].user_id, "task2"))) =>
                    (req'[r] # req[r] => combined' = combined)
        /\ combined' # combined =>
            \E r \in Reqs :
                LET u == req[r].user_id
                    new == combined'[Len(combined')]
                IN  /\ req[r].kind = "recalc" /\ req'[r] # req[r]
                    /\ Len(combined') = Len(combined) + 1
                    /\ SubSeq(combined', 1, Len(combined)) = combined
                    /\ new.user_id = u
                    /\ ~IsNone(Latest(u, "task1")) /\ ~IsNone(Latest(u, "task2"))
                    /\ new.task1_score_id = Get(Latest(u, "task1"))
                    /\ new.task2_score_id = Get(Latest(u, "task2"))
                    /\ LET a1 == scores[new.task1_score_id].adjusted_score
                           a2 == scores[new.task2_score_id].adjusted_score
                       IN  /\ new.combined_score % Tenth = 0
                           /\ 2 * (3 * new.combined_score - (a1 + 2 * a2)) <= 3 * Tenth
                           /\ 2 * ((a1 + 2 * a2) - 3 * new.combined_score) <= 3 * Tenth
                           /\ (a1 = 13 * (Unit \div 2) /\ a2 = 7 * Unit) =>
                                    new.combined_score = 68 * Tenth ]_vars

\* The row with 6.8 made from adjusted scores 6.5 and 7.0, the 6.5 being
\* the newer of two task1 rows of the user.
C15_Witness ==
    \E i \in 1..Len(combined) :
        /\ combined[i].combined_score = 68 * Tenth
        /\ scores[combined[i].task1_score_id].adjusted_score = 13 * (Unit \div 2)
        /\ scores[combined[i].task2_score_id].adjusted_score = 7 * Unit
        /\ \E j \in 1..Len(scores) :
            /\ j < combined[i].task1_score_id
            /\ scores[j].user_id = combined[i].user_id
            /\ scores[j].task_type = "task1"
            /\ scores[j].adjusted_score # 13 * (Unit \div 2)

\* C16: WritingScore rows and CombinedWritingScore rows are only ever
\* added: every step leaves every stored row in place and as it was.  And
\* when a user who has a combined row hands in a task1 or task2 essay again
\* and the aggregation of that call goes through without an error, the
\* store holds one combined row for the new pair (the new row and the
\* newest row of the other task), added behind the rows that were there.
Resubmitted(rq) ==
    /\ rq.kind = "score" /\ rq.pc = "done"
    /\ ~InLog(rq, "aggregate error")
    /\ rq.task_type \in {Some("task1"), Some("task2")}
    /\ \E i \in 1..Len(combined) :
        /\ combined[i].user_id = rq.user_id
        /\ Get(rq.new_score) \notin {combined[i].task1_score_id, combined[i].task2_score_id}
NewPairCombined ==
    \A r \in Reqs :
        Resubmitted(req[r]) =>
            LET u == req[r].user_id
                t1 == Get(Latest(u, "task1"))
                t2 == Get(Latest(u, "task2"))
            IN  /\ Get(req[r].new_score) \in {t1, t2}
                /\ Cardinality(Existing(u, t1, t2)) = 1
                /\ \A i \in Existing(u, t1, t2), j \in 1..Len(combined) :
                        (combined[j].user_id = u /\ j # i) => j < i
C16_RowsOnlyAdded ==
    [][ /\ Len(scores') >= Len(scores)
        /\ SubSeq(scores', 1, Len(scores)) = scores
        /\ Len(combined') >= Len(combined)
        /\ SubSeq(combined', 1, Len(combined)) = combined
        /\ NewPairCombined' ]_vars

\* The first user has handed in a task1 essay again: three rows of theirs,
\* and a second combined row, for the new task1 row and the task2 row.
C16_Witness ==
    \E r \in Reqs :
        /\ Resubmitted(req[r])
        /\ req[r].user_id = 1 /\ req[r].new_score = Some(3)
        /\ Len(combined) = 2
        /\ combined[1].task1_score_id = 1 /\ combined[1].task2_score_id = 2
        /\ combined[2].task1_score_id = 3 /\ combined[2].task2_score_id = 2

\* C17: the overall score of a row is the arithmetic mean of its four
\* sub-scores rounded to one decimal place: a whole number of tenths that
\* no other tenth is nearer to the mean than, also when the mean lies
\* exactly halfway between two tenths (sub-scores 6, 7, 6 and 6.5 give 6.4).
C17_OverallScore ==
    \A i \in 1..Len(scores) :
        LET w == scores[i]
            sum == w.base_scores[1] + w.base_scores[2] + w.base_scores[3] + w.base_scores[4]
        IN  /\ w.overall_score % Tenth = 0
            /\ 4 * w.overall_score - sum <= 2 * Tenth
            /\ sum - 4 * w.overall_score <= 2 * Tenth
            /\ w.base_scores = << 6 * Unit, 7 * Unit, 6 * Unit, 13 * (Unit \div 2) >> =>
                    w.overall_score = 64 * Tenth

\* A mean exactly halfway between two tenths: 6, 6.5, 6, 6.5 have mean 6.25
\* and the overall score 6.2.
C17_Witness ==
    \E i \in 1..Len(scores) :
        /\ scores[i].base_scores = << 6 * Unit, 13 * (Unit \div 2), 6 * Unit, 13 * (Unit \div 2) >>
        /\ scores[i].overall_score = 62 * Tenth

\* C18: no user's balance is ever negative, whatever the order in which the
\* steps of concurrent score_essay calls are taken.
C18_BalanceNotNegative ==
    \A u \in DOMAIN credits : credits[u] >= 0

\* Two calls of one user have both passed the check against the user's last
\* credit and both have committed their deduction; the balance is 0.
C18_Witness ==
    \E r, q \in Reqs :
        /\ r # q
        /\ req[r].kind = "score" /\ req[q].kind = "score"
        /\ req[r].user_id = req[q].user_id
        /\ req[r].seen = Some(CREDITS_PER_ANALYSIS)
        /\ req[q].seen = Some(CREDITS_PER_ANALYSIS)
        /\ InLog(req[r], "deduct") /\ InLog(req[q], "deduct")
        /\ credits[req[r].user_id] = 0

\* C19: as long as no aggregation step has raised, in every state in which
\* no score_essay call is in progress a user with at least one task1 row
\* and one task2 row has a combined row for the pair (newest task1 row,
\* newest task2 row), whatever the order in which the steps of concurrent
\* calls were taken.
NoScoreInProgress ==
    \A r \in Reqs : req[r].kind = "score" => req[r].pc \in {"done", "failed"}
C19_LatestPairCombined ==
    NoScoreInProgress =>
        \A u \in Users :
            (~IsNone(Latest(u, "task1")) /\ ~IsNone(Latest(u, "task2"))) =>
                Existing(u, Get(Latest(u, "task1")), Get(Latest(u, "task2"))) # {}

\* Two submissions of one user ran side by side: one of them found no row
\* of the other task and added nothing, the other one added the combined
\* row of the two.
C19_Witness ==
    \E r, q \in Reqs :
        /\ r # q
        /\ req[r].kind = "score" /\ req[r].pc = "done"
        /\ req[q].kind = "score" /\ req[q].pc = "done"
        /\ req[r].user_id = req[q].user_id
        /\ ~IsNone(req[r].new_score)
        /\ IsNone(req[r].task1_score) \/ IsNone(req[r].task2_score)
        /\ InLog(req[q], "combined")
        /\ Existing(req[q].user_id, Get(req[q].task1_score), Get(req[q].task2_score)) # {}
        /\ Get(req[r].new_score) \in {Get(req[q].task1_score), Get(req[q].task2_score)}

\* C20: a score_essay call running on its own changes no balance but that
\* of its user, adds no WritingScore row but its own, and any
\* CombinedWritingScore row it adds belongs to its user and references a
\* task1 row of that user in the task1 slot and a task2 row of that user in
\* the task2 slot; all other stored rows stay as they are.  When the call
\* has succeeded the store holds exactly one WritingScore row of the call,
\* owned by its user, and the user's balance is CREDITS_PER_ANALYSIS below
\* the balance at the time of the call.
Succeeded ==
    \A r \in Reqs :
        (req[r].kind = "score" /\ req[r].pc = "done") =>
            /\ RowsOfCall(req[r].call) = {Get(req[r].new_score)}
            /\ scores[Get(req[r].new_score)].user_id = req[r].user_id
            /\ credits[req[r].user_id] = Get(req[r].bal0) - CREDITS_PER_ANALYSIS
C20_ScoreEssayFrame ==
    [][ /\ DOMAIN credits' = DOMAIN credits
        /\ Len(scores') >= Len(scores) /\ SubSeq(scores', 1, Len(scores)) = scores
        /\ Len(combined') >= Len(combined)
        /\ SubSeq(combined', 1, Len(combined)) = combined
        /\ NoneActive => (credits' = credits /\ scores' = scores /\ combined' = combined)
        /\ \A r \in Reqs :
            (req[r].kind = "score" /\ req[r].pc # "idle") =>
                LET u == req[r].user_id
                IN  /\ \A v \in DOMAIN credits : v # u => credits'[v] = credits[v]
                    /\ Len(scores') <= Len(scores) + 1
                    /\ \A i \in (Len(scores) + 1)..Len(scores') :
                            scores'[i].user_id = u /\ scores'[i].call = req[r].call
                    /\ \A i \in (Len(combined) + 1)..Len(combined') :
                        LET c == combined'[i]
                        IN  /\ c.user_id = u
                            /\ c.task1_score_id \in 1..Len(scores)
                            /\ c.task2_score_id \in 1..Len(scores)
                            /\ scores[c.task1_score_id].user_id = u
                            /\ scores[c.task1_score_id].task_type = "task1"
                            /\ scores[c.task2_score_id].user_id = u
                            /\ scores[c.task2_score_id].task_type = "task2"
        /\ Succeeded' ]_vars

\* A call has succeeded and added the combined row of its user while the
\* store holds a task1 or task2 row of another user.
C20_Witness ==
    \E r \in Reqs :
        /\ req[r].kind = "score" /\ req[r].pc = "done"
        /\ InLog(req[r], "combined")
        /\ \E i \in 1..Len(scores) :
            /\ scores[i].user_id # req[r].user_id
            /\ scores[i].task_type \in {"task1", "task2"}

====
